---- MODULE Spec2Model ----
(***************************************************************************)
(* Raw-packet relay of the micro:bit mesh extension.                       *)
(*   src/mesh.cpp      sendRawPacket                                       *)
(*   src/receiver.cpp  lastPacket, hasNewPacket, onRadioEvent,             *)
(*                     startRawReceiver, getLastRawPacket                  *)
(* The radio (uBit.radio, uBit.radio.datagram) and the event bus           *)
(* (EventModel::defaultEventBus) are the environment: the hardware receive *)
(* queue, the list of registered listeners and the handler invocations the *)
(* bus still owes are state of the model.                                  *)
(***************************************************************************)
EXTENDS Integers, Sequences, FiniteSets

\* ------------------------------------------------------------------ bounds
\* capacity of the hardware datagram receive queue
MaxQueue == 2
\* datagram events the bus holds undelivered at one time
MaxEvents == 1
\* listen() requests the bus accepts in one run
MaxListen == 2
\* payloads the link layer's log keeps
MaxSent == 1
\* payloads the link layer's log keeps when the radio receives nothing
MaxTxSent == 2

\* ------------------------------------------------------------- data values
\* A ManagedBuffer is the sequence of its bytes: getBytes() is the sequence,
\* length() its length; the default-constructed one is empty.
EmptyManagedBuffer == << >>

\* A PXT Buffer is a pointer: either NULL or a box holding a length and bytes.
NULL == [null |-> TRUE, length |-> 0, data |-> << >>]

\* mkBuffer(bytes, len): a fresh, non-null box with the first len bytes.
mkBuffer(bytes, len) ==
    [null |-> FALSE, length |-> len, data |-> SubSeq(bytes, 1, len)]

\* ManagedBufferOf with the length off by one: the last byte is not copied.
ManagedBufferOf_OffByOne(data) == SubSeq(data.data, 1, data.length - 1)

\* ManagedBuffer buf(data): the box's bytes, data.length of them.
ManagedBufferOf(data) == SubSeq(data.data, 1, data.length)

\* datagrams the hardware may deliver
RxInputs == { << >>, <<170>>, <<187, 204>> }

\* arguments a caller may pass to sendRawPacket
TxInputs == { NULL, mkBuffer(<< >>, 0), mkBuffer(<<1, 2, 3>>, 3) }

\* the registration startRawReceiver asks the bus for
RadioListener ==
    [id |-> "MICROBIT_ID_RADIO", value |-> "MICROBIT_RADIO_EVT_DATAGRAM",
     handler |-> "onRadioEvent"]

\* the event the radio raises for a received datagram
DatagramEvent ==
    [id |-> "MICROBIT_ID_RADIO", value |-> "MICROBIT_RADIO_EVT_DATAGRAM"]

\* return codes of uBit.radio.datagram.send: accepted, or refused (radio busy,
\* queue full, not supported)
LinkStatuses == { "MICROBIT_OK", "MICROBIT_NOT_SUPPORTED" }

\* the call that ran last made no call of datagram.send
NoSend == "none"

\* bytes a read of freed or foreign heap memory may find
Garbage == { 0, 255 }

\* getLastRawPacket at rest: no call in progress, nothing read yet
PollIdle ==
    [pc |-> "idle", haveBytes |-> FALSE, bytes |-> << >>, dangling |-> FALSE,
     haveLen |-> FALSE, len |-> 0, seen |-> {}]

\* the record of a call: the operation, its argument, the value it returned
\* (NULL where the operation has none)
Call(op, arg, ret) == [op |-> op, arg |-> arg, ret |-> ret]

VARIABLES
    lastPacket,     \* ManagedBuffer lastPacket
    hasNewPacket,   \* bool hasNewPacket
    radioEnabled,   \* uBit.radio is enabled
    busPresent,     \* EventModel::defaultEventBus != NULL
    dedup,          \* the bus drops a registration it already holds
    listenCalls,    \* every listen() request issued to the bus, in order
    listeners,      \* the registrations the bus holds
    rxQueue,        \* uBit.radio.datagram's receive queue, head first
    pendingEvents,  \* per raised event: handler invocations owed ([n, left])
    sent,           \* payloads handed to uBit.radio.datagram.send, in order
    last,           \* the call that ran last: [op, arg, ret]
    linkStatus,     \* what datagram.send returned to the call that ran last
    poll,           \* the getLastRawPacket() in progress: what it has read
    \* history of the run, read by the properties only
    fired,              \* some callback has run
    delivered,          \* what recv() gave the most recent callback
    pollsSinceCallback, \* polls since the most recent callback (0, 1, 2 = many)
    lost,               \* packets overwritten before any poll saw them
    eventWrites,        \* slot values written on behalf of the event in dispatch
    unannounced         \* datagrams in rxQueue that arrived with no listener

slot == <<lastPacket, hasNewPacket>>
radio == <<radioEnabled, rxQueue, sent>>
bus == <<busPresent, dedup, listenCalls, listeners, pendingEvents>>
history == <<fired, delivered, pollsSinceCallback, lost, eventWrites,
             unannounced>>
vars == <<lastPacket, hasNewPacket, radioEnabled, busPresent, dedup, listenCalls,
          listeners, rxQueue, pendingEvents, sent, last, linkStatus, poll,
          fired, delivered, pollsSinceCallback, lost, eventWrites, unannounced>>

Init ==
    /\ lastPacket = EmptyManagedBuffer
    /\ hasNewPacket = FALSE
    /\ radioEnabled = FALSE
    /\ busPresent \in BOOLEAN
    /\ dedup \in BOOLEAN
    /\ listenCalls = << >>
    /\ listeners = << >>
    /\ rxQueue = << >>
    /\ pendingEvents = << >>
    /\ sent = << >>
    /\ last = Call("init", NULL, NULL)
    /\ linkStatus = NoSend
    /\ poll = PollIdle
    /\ fired = FALSE
    /\ delivered = EmptyManagedBuffer
    /\ pollsSinceCallback = 0
    /\ lost = {}
    /\ eventWrites = {}
    /\ unannounced = 0

\* ------------------------------------------------------------- environment
\* uBit.radio.datagram.recv(): the head of the queue, or an empty buffer when
\* the queue holds nothing.
recv == IF rxQueue = << >> THEN EmptyManagedBuffer ELSE Head(rxQueue)

\* the queue after recv()
recvRest == IF rxQueue = << >> THEN << >> ELSE Tail(rxQueue)

\* defaultEventBus->listen(id, value, handler): the listeners afterwards.
listen(l) ==
    IF dedup /\ (\E i \in 1..Len(listeners) : listeners[i] = l)
    THEN listeners
    ELSE Append(listeners, l)

\* handlers the bus invokes for event e, one per matching registration
Matching(e) ==
    Cardinality({i \in 1..Len(listeners) :
                    /\ listeners[i].id = e.id
                    /\ listeners[i].value = e.value})

\* The hardware receives datagram p: it is queued, and the datagram event is
\* raised, owing one handler invocation per matching registration.
DatagramArrives ==
    \E p \in RxInputs :
        /\ radioEnabled
        /\ Len(rxQueue) < MaxQueue
        /\ Len(pendingEvents) < MaxEvents
        /\ rxQueue' = Append(rxQueue, p)
        /\ pendingEvents' =
              IF Matching(DatagramEvent) = 0
              THEN pendingEvents
              ELSE Append(pendingEvents,
                          [n |-> Matching(DatagramEvent),
                           left |-> Matching(DatagramEvent)])
        /\ last' = Call("datagramArrives", NULL, NULL)
        /\ UNCHANGED <<slot, radioEnabled, sent, busPresent, dedup, listenCalls,
                       listeners, fired, delivered, pollsSinceCallback, lost,
                       eventWrites, poll>>
        /\ unannounced' = IF Matching(DatagramEvent) = 0
                          THEN unannounced + 1
                          ELSE unannounced
        /\ linkStatus' = NoSend

\* The process-wide event bus comes into being.
BusCreated ==
    /\ ~busPresent
    /\ busPresent' = TRUE
    /\ last' = Call("busCreated", NULL, NULL)
    /\ UNCHANGED <<slot, radio, dedup, listenCalls, listeners, pendingEvents,
                   history, poll>>
    /\ linkStatus' = NoSend

\* ---------------------------------------------------------- src/mesh.cpp
\* sendRawPacket without its guard: an absent buffer is wrapped and sent too.
sendRawPacket_NoNullCheck(data) ==
    /\ last' = Call("sendRawPacket", data, NULL)
    /\ sent' = Append(sent, ManagedBufferOf(data))
    /\ linkStatus' \in LinkStatuses
    /\ UNCHANGED <<slot, radioEnabled, rxQueue, bus, history, poll>>

\* sendRawPacket that sends again when the link layer refuses the packet.
sendRawPacket_RetriesOnReject(data) ==
    /\ last' = Call("sendRawPacket", data, NULL)
    /\ IF data = NULL
       THEN /\ UNCHANGED sent
            /\ linkStatus' = NoSend
       ELSE /\ linkStatus' \in LinkStatuses
            /\ sent' = IF linkStatus' = "MICROBIT_OK"
                       THEN Append(sent, ManagedBufferOf(data))
                       ELSE Append(Append(sent, ManagedBufferOf(data)),
                                   ManagedBufferOf(data))
    /\ UNCHANGED <<slot, radioEnabled, rxQueue, bus, history, poll>>

sendRawPacket(data) ==
    /\ last' = Call("sendRawPacket", data, NULL)
    /\ IF data = NULL
       THEN /\ UNCHANGED sent
            /\ linkStatus' = NoSend
       ELSE /\ sent' = Append(sent, ManagedBufferOf(data))
            /\ linkStatus' \in LinkStatuses
    /\ UNCHANGED <<slot, radioEnabled, rxQueue, bus, history, poll>>

\* ------------------------------------------------------ src/receiver.cpp
\* What one handler invocation adds to the history of the run.
CallbackHistory ==
    /\ fired' = TRUE
    /\ delivered' = recv
    /\ pollsSinceCallback' = 0
    /\ lost' = IF fired /\ pollsSinceCallback = 0
               THEN lost \cup {delivered}
               ELSE {}
    /\ eventWrites' = IF Head(pendingEvents).left = Head(pendingEvents).n
                      THEN {lastPacket'}
                      ELSE eventWrites \cup {lastPacket'}
    /\ unannounced' = IF unannounced > 0 THEN unannounced - 1 ELSE 0

\* `lastPacket = ...` drops the slot's reference to the old payload, which is
\* freed: a pointer an in-progress poll took from getBytes() now dangles. The
\* poll in progress is also noted to have overlapped the new packet.
Released(p) ==
    IF p.pc = "idle"
    THEN p
    ELSE [p EXCEPT !.dangling = p.haveBytes, !.seen = @ \cup {recv}]

\* The bus has made one of the invocations it owed for the oldest event.
Dispatched ==
    IF Head(pendingEvents).left = 1
    THEN Tail(pendingEvents)
    ELSE <<[Head(pendingEvents) EXCEPT !.left = @ - 1]>> \o Tail(pendingEvents)

\* onRadioEvent that keeps a packet nobody has read yet: the new datagram is
\* drained and dropped while hasNewPacket is already set.
onRadioEvent_KeepsUnread ==
    /\ pendingEvents # << >>
    /\ lastPacket' = IF hasNewPacket THEN lastPacket ELSE recv
    /\ rxQueue' = recvRest
    /\ hasNewPacket' = TRUE
    /\ pendingEvents' = Dispatched
    /\ last' = Call("onRadioEvent", NULL, NULL)
    /\ CallbackHistory
    /\ poll' = Released(poll)
    /\ UNCHANGED <<radioEnabled, sent, busPresent, dedup, listenCalls, listeners>>
    /\ linkStatus' = NoSend

\* onRadioEvent whose flag follows the data: it is set only when the datagram
\* has bytes.
onRadioEvent_FlagTracksData ==
    /\ pendingEvents # << >>
    /\ lastPacket' = recv
    /\ rxQueue' = recvRest
    /\ hasNewPacket' = (Len(recv) > 0)
    /\ pendingEvents' = Dispatched
    /\ last' = Call("onRadioEvent", NULL, NULL)
    /\ CallbackHistory
    /\ poll' = Released(poll)
    /\ UNCHANGED <<radioEnabled, sent, busPresent, dedup, listenCalls, listeners>>
    /\ linkStatus' = NoSend

onRadioEvent ==
    /\ pendingEvents # << >>
    /\ lastPacket' = recv
    /\ rxQueue' = recvRest
    /\ hasNewPacket' = TRUE
    /\ pendingEvents' = Dispatched
    /\ last' = Call("onRadioEvent", NULL, NULL)
    /\ CallbackHistory
    /\ poll' = Released(poll)
    /\ UNCHANGED <<radioEnabled, sent, busPresent, dedup, listenCalls, listeners>>
    /\ linkStatus' = NoSend

\* startRawReceiver that also reinitialises the receive slot.
startRawReceiver_ResetsSlot ==
    /\ busPresent => Len(listenCalls) < MaxListen
    /\ radioEnabled' = TRUE
    /\ IF busPresent
       THEN /\ listenCalls' = Append(listenCalls, RadioListener)
            /\ listeners' = listen(RadioListener)
       ELSE UNCHANGED <<listenCalls, listeners>>
    /\ lastPacket' = EmptyManagedBuffer
    /\ hasNewPacket' = FALSE
    /\ last' = Call("startRawReceiver", NULL, NULL)
    /\ UNCHANGED <<rxQueue, sent, busPresent, dedup, pendingEvents, history,
                   poll>>
    /\ linkStatus' = NoSend

\* startRawReceiver with the bus check first: without a bus it returns before
\* enabling the radio.
startRawReceiver_ReturnsEarly ==
    /\ busPresent => Len(listenCalls) < MaxListen
    /\ IF busPresent
       THEN /\ radioEnabled' = TRUE
            /\ listenCalls' = Append(listenCalls, RadioListener)
            /\ listeners' = listen(RadioListener)
       ELSE UNCHANGED <<radioEnabled, listenCalls, listeners>>
    /\ last' = Call("startRawReceiver", NULL, NULL)
    /\ UNCHANGED <<slot, rxQueue, sent, busPresent, dedup, pendingEvents,
                   history, poll>>
    /\ linkStatus' = NoSend

\* startRawReceiver that primes the slot by running the handler's body once
\* itself, registered or not.
startRawReceiver_PrimesSlot ==
    /\ busPresent => Len(listenCalls) < MaxListen
    /\ radioEnabled' = TRUE
    /\ IF busPresent
       THEN /\ listenCalls' = Append(listenCalls, RadioListener)
            /\ listeners' = listen(RadioListener)
       ELSE UNCHANGED <<listenCalls, listeners>>
    /\ lastPacket' = recv
    /\ rxQueue' = recvRest
    /\ hasNewPacket' = TRUE
    /\ last' = Call("startRawReceiver", NULL, NULL)
    /\ UNCHANGED <<sent, busPresent, dedup, pendingEvents, history, poll>>
    /\ linkStatus' = NoSend

startRawReceiver ==
    /\ busPresent => Len(listenCalls) < MaxListen
    /\ radioEnabled' = TRUE
    /\ IF busPresent
       THEN /\ listenCalls' = Append(listenCalls, RadioListener)
            /\ listeners' = listen(RadioListener)
       ELSE UNCHANGED <<listenCalls, listeners>>
    /\ last' = Call("startRawReceiver", NULL, NULL)
    /\ UNCHANGED <<slot, rxQueue, sent, busPresent, dedup, pendingEvents,
                   history, poll>>
    /\ linkStatus' = NoSend

\* What one poll adds to the history of the run.
PollHistory ==
    /\ pollsSinceCallback' = IF fired /\ pollsSinceCallback < 2
                             THEN pollsSinceCallback + 1
                             ELSE pollsSinceCallback
    /\ UNCHANGED <<fired, delivered, lost, eventWrites, unannounced>>

\* The poll's return value with a null pointer for "nothing new".
getLastRawPacketResult_NullWhenEmpty ==
    IF ~hasNewPacket
    THEN NULL
    ELSE mkBuffer(lastPacket, Len(lastPacket))

\* The poll's return value with a null pointer for a zero-length packet.
getLastRawPacketResult_NullForZeroLength ==
    IF ~hasNewPacket
    THEN mkBuffer(NULL.data, 0)
    ELSE IF Len(lastPacket) = 0
         THEN NULL
         ELSE mkBuffer(lastPacket, Len(lastPacket))

\* The value getLastRawPacket returns.
getLastRawPacketResult ==
    IF ~hasNewPacket
    THEN mkBuffer(NULL.data, 0)
    ELSE mkBuffer(lastPacket, Len(lastPacket))

\* getLastRawPacket with one-shot semantics: a read clears hasNewPacket.
getLastRawPacket_ClearsOnRead ==
    /\ last' = Call("getLastRawPacket", NULL, getLastRawPacketResult)
    /\ hasNewPacket' = FALSE
    /\ PollHistory
    /\ UNCHANGED <<lastPacket, radio, bus, poll>>
    /\ linkStatus' = NoSend

getLastRawPacket ==
    /\ last' = Call("getLastRawPacket", NULL, getLastRawPacketResult)
    /\ PollHistory
    /\ UNCHANGED <<slot, radio, bus, poll>>
    /\ linkStatus' = NoSend

\* ---------------------------------- getLastRawPacket, one read at a time
\* What len bytes read at a pointer hold. A live buffer of at least len bytes
\* gives its bytes; past the end of the buffer the heap gives anything; a
\* freed payload may still hold its old bytes or have been written over.
MemoryAt(bytes, dangling, len) ==
    LET Pad(g) == [i \in 1..len |-> IF i <= Len(bytes) THEN bytes[i] ELSE g]
        Junk(g) == [i \in 1..len |-> g]
    IN  IF ~dangling /\ len <= Len(bytes)
        THEN {bytes}
        ELSE {Pad(g) : g \in Garbage}
                \cup (IF dangling THEN {Junk(g) : g \in Garbage} ELSE {})

\* `if (!hasNewPacket) return mkBuffer(NULL, 0);` -- the flag is read; with
\* it clear the call returns at once, otherwise it goes on to the arguments
\* of the second mkBuffer.
PollTestFlag ==
    /\ poll.pc = "idle"
    /\ IF ~hasNewPacket
       THEN /\ last' = Call("getLastRawPacket", NULL, mkBuffer(NULL.data, 0))
            /\ linkStatus' = NoSend
            /\ poll' = PollIdle
            /\ PollHistory
       ELSE /\ poll' = [PollIdle EXCEPT !.pc = "args", !.seen = {lastPacket}]
            /\ UNCHANGED <<last, linkStatus, history>>
    /\ UNCHANGED <<slot, radio, bus>>

\* lastPacket.getBytes(): the pointer to the payload the slot holds now.
PollGetBytes ==
    /\ poll.pc = "args"
    /\ ~poll.haveBytes
    /\ poll' = [poll EXCEPT !.haveBytes = TRUE, !.bytes = lastPacket,
                            !.dangling = FALSE]
    /\ UNCHANGED <<slot, radio, bus, last, linkStatus, history>>

\* lastPacket.length(): the length of the payload the slot holds now.
PollLength ==
    /\ poll.pc = "args"
    /\ ~poll.haveLen
    /\ poll' = [poll EXCEPT !.haveLen = TRUE, !.len = Len(lastPacket)]
    /\ UNCHANGED <<slot, radio, bus, last, linkStatus, history>>

\* mkBuffer(pointer, length) copies length bytes from the pointer and the
\* call returns. The two arguments were evaluated in either order.
PollReturn ==
    /\ poll.pc = "args"
    /\ poll.haveBytes
    /\ poll.haveLen
    /\ \E m \in MemoryAt(poll.bytes, poll.dangling, poll.len) :
          last' = Call("getLastRawPacket", NULL, mkBuffer(m, poll.len))
    /\ linkStatus' = NoSend
    /\ poll' = [poll EXCEPT !.pc = "idle"]
    /\ PollHistory
    /\ UNCHANGED <<slot, radio, bus>>

\* The caller sends while the link layer's log has room (an absent buffer
\* needs none).
Send(room) ==
    \E data \in TxInputs :
        /\ data # NULL => Len(sent) < room
        /\ sendRawPacket(data)

Next ==
    \/ Send(MaxSent)
    \/ startRawReceiver
    \/ getLastRawPacket
    \/ onRadioEvent
    \/ DatagramArrives
    \/ BusCreated

Spec == Init /\ [][Next]_vars

\* The transmit path next to the receive API while no datagram arrives: the
\* link layer's log is longer here.
NextTx ==
    \/ Send(MaxTxSent)
    \/ startRawReceiver
    \/ getLastRawPacket
    \/ BusCreated

SpecTx == Init /\ [][NextTx]_vars

\* The receive cache with the callback free to run between any two reads of
\* a poll. The caller makes one call at a time: it does not start the
\* receiver in the middle of its own poll.
NextInterleaved ==
    \/ PollTestFlag
    \/ PollGetBytes
    \/ PollLength
    \/ PollReturn
    \/ (poll.pc = "idle" /\ startRawReceiver)
    \/ onRadioEvent
    \/ DatagramArrives
    \/ BusCreated

SpecInterleaved == Init /\ [][NextInterleaved]_vars

\* ------------------------------------------------------------- properties
\* the box a poll returns for ManagedBuffer b: non-null, b's length, b's bytes
Returns(b) ==
    /\ last.ret.null = FALSE
    /\ last.ret.length = Len(b)
    /\ last.ret.data = b

Polled == last.op = "getLastRawPacket"

\* the buffer holds a packet no poll has returned yet
Unread == fired /\ pollsSinceCallback = 0

\* C1 (P3, overwrite, not queue): when callbacks have delivered further packets
\* on top of one that no poll had read, every poll up to the next callback
\* returns the packet of the most recent callback, and never one of the
\* overwritten packets.
C1_OverwriteNotQueue ==
    (Polled /\ lost # {}) =>
        /\ Returns(delivered)
        /\ \A a \in lost \ {delivered} : last.ret.data # a

\* C1 witness: a poll (not the first since the callback) that followed the
\* overwriting of an unread packet different from the one now held.
C1_Witness ==
    /\ Polled
    /\ pollsSinceCallback = 2
    /\ lost \ {delivered} # {}
    /\ delivered # << >>

\* C2 (P6, idempotent setup): the handler invocations made for one hardware
\* datagram event never leave more than one distinct packet in the slot,
\* however many times startRawReceiver() was called.
C2_OneEventOnePacket == Cardinality(eventWrites) <= 1

\* C3 (ReceiveSlot invariant): hasNewPacket is true exactly when lastPacket
\* holds a packet that no getLastRawPacket() has returned yet.
C3_PendingIffUnread == hasNewPacket <=> Unread

\* C4 (P5, poll after arrival): once a callback has fired, every poll returns
\* byte for byte the packet of the most recent callback, the first poll after
\* it and every repeated one.
C4_PollReturnsLatest == (Polled /\ fired) => Returns(delivered)

\* C4 witness: a repeated poll of a non-empty packet.
C4_Witness ==
    /\ Polled
    /\ fired
    /\ pollsSinceCallback = 2
    /\ Len(delivered) = 2

\* C5 (P4, empty before first arrival): while no callback has fired, a poll
\* returns a non-null zero-length buffer, whatever startRawReceiver and
\* sendRawPacket calls came before.
C5_EmptyBeforeFirstArrival == (Polled /\ ~fired) => Returns(<< >>)

\* C5 witness: a poll before any callback, after a start, a send and the
\* arrival of a datagram at the hardware.
C5_Witness ==
    /\ Polled
    /\ ~fired
    /\ radioEnabled
    /\ sent # << >>
    /\ rxQueue # << >>

\* C6 (P1, no-op on absent input): sendRawPacket(NULL) hands nothing to the
\* link layer, returns nothing, and leaves the slot, the radio and the bus as
\* they were.
C6_NullSendIsNoOp ==
    [][(last'.op = "sendRawPacket" /\ last'.arg = NULL) =>
          /\ last'.ret = NULL
          /\ UNCHANGED <<sent, lastPacket, hasNewPacket, radioEnabled, rxQueue,
                         busPresent, listenCalls, listeners, pendingEvents>>]_vars

\* C6 witness: sendRawPacket(NULL) has just run in a state that holds a
\* packet, a registration and an earlier send.
C6_Witness ==
    /\ last.op = "sendRawPacket"
    /\ last.arg = NULL
    /\ hasNewPacket
    /\ listeners # << >>
    /\ sent # << >>

\* C7 (P2, send preserves bytes): after sendRawPacket(B) with B present, the
\* payload last handed to the radio's send is B: B's length, B's bytes in B's
\* order.
C7_SendPreservesBytes ==
    (last.op = "sendRawPacket" /\ last.arg # NULL) =>
        /\ sent # << >>
        /\ Len(sent[Len(sent)]) = last.arg.length
        /\ sent[Len(sent)] = last.arg.data

\* C7 witness: a three-byte buffer has just been sent.
C7_Witness ==
    /\ last.op = "sendRawPacket"
    /\ last.arg # NULL
    /\ last.arg.length = 3

\* C8 (single-writer frame condition): getLastRawPacket, startRawReceiver and
\* sendRawPacket leave lastPacket and hasNewPacket unchanged.
C8_OnlyCallbackWritesSlot ==
    [][last'.op \in {"getLastRawPacket", "startRawReceiver", "sendRawPacket"} =>
          UNCHANGED <<lastPacket, hasNewPacket>>]_vars

\* C8 witness: a start has just run while the slot held a non-empty packet
\* (HOLDING).
C8_Witness ==
    /\ last.op = "startRawReceiver"
    /\ hasNewPacket
    /\ lastPacket # << >>

\* C9 (start with and without the bus): every startRawReceiver() enables the
\* radio and returns nothing; without a bus it registers nothing, with a bus
\* it issues exactly one listen request, for the radio's datagram event.
C9_StartRegistersOnceIfBus ==
    [][last'.op = "startRawReceiver" =>
          /\ radioEnabled'
          /\ last'.ret = NULL
          /\ IF busPresent
             THEN listenCalls' = Append(listenCalls, RadioListener)
             ELSE UNCHANGED <<listenCalls, listeners>>]_vars

\* C9 witness: a start with the bus present has issued the only listen
\* request so far, while a datagram that arrived after an earlier start
\* without a bus (radio enabled, nothing registered) still sits in the queue.
C9_Witness ==
    /\ last.op = "startRawReceiver"
    /\ busPresent
    /\ Len(listenCalls) = 1
    /\ Len(listeners) = 1
    /\ rxQueue # << >>
    /\ pendingEvents = << >>
    /\ ~fired

\* C10 (callback drains and stores): every invocation of the callback removes
\* one datagram from the head of the receive queue, stores it as lastPacket
\* and leaves hasNewPacket true.
C10_CallbackDrainsHead ==
    [][last'.op = "onRadioEvent" =>
          /\ rxQueue # << >>
          /\ rxQueue' = Tail(rxQueue)
          /\ lastPacket' = Head(rxQueue)
          /\ hasNewPacket']_vars

\* C12 (hardware queue does not stall): once the bus has made every handler
\* invocation it owed, no datagram that arrived after the callback was
\* registered is left in the receive queue.
C12_QueueDrains ==
    pendingEvents = << >> => Len(rxQueue) <= unannounced

\* C11 (poll atomicity under interleaving): with the callback free to run in
\* the middle of a poll, what the poll returns is still zero-length or the
\* whole of one packet the slot held during the poll; never the bytes of one
\* packet with the length of another.
C11_NoTornRead ==
    (Polled /\ poll.pc = "idle") =>
        \/ last.ret.length = 0
        \/ last.ret.data \in poll.seen

\* C13 (fire-and-forget send): every sendRawPacket with a buffer present,
\* zero-length or not, makes exactly one call of the link layer's send, after
\* those of the earlier calls, and returns nothing, whether the link layer
\* accepted the packet or refused it.
C13_FireAndForget ==
    [][(last'.op = "sendRawPacket" /\ last'.arg # NULL) =>
          /\ sent' = Append(sent, last'.arg.data)
          /\ linkStatus' \in LinkStatuses
          /\ last'.ret = NULL]_vars

\* C13 witness: two sends have reached the link layer in call order, the
\* second one zero-length and refused.
C13_Witness ==
    /\ last.op = "sendRawPacket"
    /\ linkStatus = "MICROBIT_NOT_SUPPORTED"
    /\ sent = << <<1, 2, 3>>, << >> >>

\* C14 (no-data and empty-packet are indistinguishable): a poll in EMPTY and
\* a poll after a callback delivered a zero-length datagram return the same
\* value, a non-null buffer of length 0.
C14_EmptyIndistinguishable ==
    (Polled /\ (~fired \/ delivered = << >>)) =>
        last.ret = [null |-> FALSE, length |-> 0, data |-> << >>]

\* C14 witness: a poll after the only registered callback drained a
\* zero-length datagram.
C14_Witness ==
    /\ Polled
    /\ hasNewPacket
    /\ delivered = << >>
    /\ Len(listeners) = 1

\* C15 (pending is monotonic): once hasNewPacket is true no step makes it
\* false.
C15_PendingMonotonic == [][hasNewPacket => hasNewPacket']_vars

\* C15 witness: hasNewPacket still true after a further callback that
\* delivered a zero-length datagram, polls and a send.
C15_Witness ==
    /\ hasNewPacket
    /\ lost # {}
    /\ delivered = << >>
    /\ pollsSinceCallback = 2
    /\ last.op = "sendRawPacket"

\* C16 (receiver lifecycle): while no startRawReceiver() has run with the bus
\* present, no callback has fired and the slot is EMPTY; and no step
\* disables the radio or removes a registration.
C16_ReceiverLifecycle ==
    [][/\ listenCalls' = << >> =>
            (~fired' /\ ~hasNewPacket' /\ lastPacket' = EmptyManagedBuffer)
       /\ radioEnabled => radioEnabled'
       /\ Len(listeners') >= Len(listeners)
       /\ SubSeq(listeners', 1, Len(listeners)) = listeners]_vars

\* C16 witness: the callback is registered and the radio on, a datagram that
\* arrived before the registration is still queued, and a poll finds the
\* slot EMPTY.
C16_Witness ==
    /\ Polled
    /\ listeners # << >>
    /\ radioEnabled
    /\ unannounced > 0
    /\ ~hasNewPacket
    /\ last.ret.length = 0

====
